---- MODULE Spec2Model ----
(***************************************************************************)
(* A model of the abydos q-gram tokenizer (abydos/tokenizer/_q_grams.py)   *)
(* and of the token-distance formulas built on it                          *)
(* (abydos/distance/_weighted_jaccard.py, _kuhns_viii.py,                  *)
(* _kuder_richardson.py, _quantitative_jaccard.py, _generalized_fleiss.py).*)
(*                                                                         *)
(* A Python str is a sequence of one-character strings.  An int-or-        *)
(* Iterable parameter (qval, skip) is a record [iter, vals]: iter says     *)
(* whether the value is an Iterable, vals lists its integers (one integer  *)
(* for a plain int).  A Counter is a function from the tokens it holds to  *)
(* their counts.                                                           *)
(***************************************************************************)
EXTENDS Integers, Sequences, FiniteSets, TLC

VARIABLES
    status,     \* "init" | "constructed" | "raised" | "tokenized"
    args,       \* the arguments QGrams(...) was called with
    qg,         \* the QGrams instance: its attributes
    windowed,   \* the local `string` of each (qval_i, skip_i) pair of the last tokenize
    measure,    \* the distance measure whose sim() ran last
    dist_args,  \* that measure's configuration and the (src, tar) pair
    src_tokens, \* the engine's token pair state: Counter of src
    tar_tokens, \*                                Counter of tar
    result      \* what sim() returned or raised

vars == <<status, args, qg, windowed, measure, dist_args, src_tokens, tar_tokens, result>>

tokvars == <<status, args, qg, windowed>>
distvars == <<measure, dist_args, src_tokens, tar_tokens, result>>

----------------------------------------------------------------------------
(* Bounds and input sets *)

\* longest generated input string
MaxLen == 2

Alphabet == {"A", "T"}

Strings(n) == UNION {[1..k -> Alphabet] : k \in 0..n}

\* the input of the docstring examples, 'AATTATAT'
DocString == <<"A", "A", "T", "T", "A", "T", "A", "T">>

Inputs == Strings(MaxLen) \cup {DocString}

PyInt(n) == [iter |-> FALSE, vals |-> <<n>>]
PyList(s) == [iter |-> TRUE, vals |-> s]

\* q-gram lengths offered to the constructor: an int, or range(q, q + 2)
QInts == -1..3

QvalArgs ==
    {PyInt(q) : q \in QInts} \cup {PyList(<<q, q + 1>>) : q \in -1..2}

SkipArgs == {PyInt(0), PyInt(1), PyList(<<0, 1>>)}

StartStopArgs == {<< >>, <<"$">>, <<"$", "#">>}

ScalerArgs == {"None", "set"}

----------------------------------------------------------------------------
(* Python built-ins used by the code *)

Range(f) == {f[i] : i \in DOMAIN f}

\* str * int: n copies of c, '' when n <= 0
Repeat(c, n) == [i \in 1..n |-> c]

Min(x, y) == IF x < y THEN x ELSE y

\* string[start : stop : step] for 0 <= start, step >= 1
PySlice(string, start, stop, step) ==
    LET end == Min(stop, Len(string))
        cnt == IF end > start THEN ((end - start) + step - 1) \div step ELSE 0
    IN  [m \in 1..cnt |-> string[start + (m - 1) * step + 1]]

EmptyCounter == [t \in {} |-> 0]

\* collections.Counter(list)
Counter(seq) ==
    [t \in Range(seq) |-> Cardinality({i \in DOMAIN seq : seq[i] = t})]

\* Counter[tok]: 0 for an absent key
Count(c, tok) == IF tok \in DOMAIN c THEN c[tok] ELSE 0

RECURSIVE SumOver(_, _)
SumOver(c, keys) ==
    IF keys = {} THEN 0
    ELSE LET k == CHOOSE x \in keys : TRUE
         IN  c[k] + SumOver(c, keys \ {k})

\* sum(counter.values())
CounterTotal(c) == SumOver(c, DOMAIN c)

----------------------------------------------------------------------------
(* QGrams.__init__ *)

NoInstance ==
    [attrs |-> {}, qval |-> PyInt(0), start_stop |-> << >>, skip |-> PyInt(0),
     scaler |-> "None", string |-> << >>, ordered_tokens |-> << >>,
     tokens |-> EmptyCounter, string_ss |-> << >>]

\* `qval == 0` / `qval == 1`: an int compares equal, a list or tuple never does
QvalEquals(q, n) == ~q.iter /\ q.vals[1] = n

QvalIsZeroIgnored(q) == FALSE

\* line 106
QvalIsZero(q) == QvalEquals(q, 0)

\* _Tokenizer.__init__(scaler): the base class's attributes
TokenizerInit(scaler) ==
    [NoInstance EXCEPT !.attrs = {"_scaler", "_tokens", "_string", "_ordered_tokens"},
                       !.scaler = scaler]

\* lines 108-117
InitBody(a) ==
    LET base == TokenizerInit(a.scaler)
    IN  [base EXCEPT
            !.attrs = @ \cup {"qval", "start_stop", "skip", "_string_ss"},
            !.qval = a.qval,
            !.start_stop = IF QvalEquals(a.qval, 1) THEN << >> ELSE a.start_stop,
            !.skip = a.skip,
            !.string_ss = base.string]

----------------------------------------------------------------------------
(* QGrams.tokenize *)

AsIterableIncremented(p) ==
    IF p.iter THEN p ELSE [iter |-> TRUE, vals |-> <<p.vals[1] + 1>>]

\* lines 137-140: a non-Iterable becomes a one-element tuple
AsIterable(p) == [iter |-> TRUE, vals |-> p.vals]

LoopPairsSkipOuter(qv, sk) ==
    [k \in 1..(Len(qv) * Len(sk)) |->
        [qval_i |-> qv[((k - 1) % Len(qv)) + 1],
         skip_i |-> sk[((k - 1) \div Len(qv)) + 1]]]

\* the (qval_i, skip_i) pairs in the order the nested loops visit them
\* (lines 142-143)
LoopPairs(qv, sk) ==
    [k \in 1..(Len(qv) * Len(sk)) |->
        [qval_i |-> qv[((k - 1) \div Len(sk)) + 1],
         skip_i |-> sk[((k - 1) % Len(sk)) + 1]]]

SkipPairLengthOnly(s, qval_i) == Len(s) < qval_i

SkipPairRangeOnly(s, qval_i) == qval_i < 1

\* line 144
SkipPair(s, qval_i) == Len(s) < qval_i \/ qval_i < 1

PadStringFirstOnly(ss, qval_i, s) ==
    IF ss # << >>
    THEN Repeat(ss[1], qval_i - 1) \o s \o Repeat(ss[1], qval_i - 1)
    ELSE s

\* lines 147-154
PadString(ss, qval_i, s) ==
    IF ss # << >>
    THEN Repeat(ss[1], qval_i - 1) \o s \o Repeat(ss[Len(ss)], qval_i - 1)
    ELSE s

\* lines 158-159
LongestSS(string, string_ss) ==
    IF Len(string) > Len(string_ss) THEN string ELSE string_ss

GramsOneShort(string, qval_i, skip_i) ==
    LET step == skip_i + 1
    IN  [i \in 1..(Len(string) - qval_i) |->
            PySlice(string, i - 1, (i - 1) + qval_i * step, step)]

\* lines 161-165
Grams(string, qval_i, skip_i) ==
    LET step == skip_i + 1
    IN  [i \in 1..(Len(string) - (qval_i - 1)) |->
            PySlice(string, i - 1, (i - 1) + qval_i * step, step)]

\* lines 144-165: one pass of the loop body over the locals
\* [ordered_tokens, string_ss, windowed]
LoopBody(loc, start_stop, s, pair) ==
    IF SkipPair(s, pair.qval_i)
    THEN loc
    ELSE LET string == PadString(start_stop, pair.qval_i, s)
         IN  [ordered_tokens |->
                  loc.ordered_tokens \o Grams(string, pair.qval_i, pair.skip_i),
              string_ss |-> LongestSS(string, loc.string_ss),
              windowed |->
                  Append(loc.windowed,
                         [qval_i |-> pair.qval_i, skip_i |-> pair.skip_i,
                          string |-> string])]

RECURSIVE Loop(_, _, _, _, _)
Loop(loc, start_stop, s, pairs, k) ==
    IF k > Len(pairs) THEN loc
    ELSE Loop(LoopBody(loc, start_stop, s, pairs[k]), start_stop, s, pairs, k + 1)

\* _Tokenizer.tokenize(): count the ordered tokens, then apply the scaler
TokenizerTokenize(scaler, ordered) ==
    IF scaler = "set"
    THEN [t \in Range(ordered) |-> 1]
    ELSE Counter(ordered)

KeepOrderedTokens(self) == self.ordered_tokens

\* line 135
ResetOrderedTokens(self) == << >>

\* lines 134-168; the result carries the instance and the windowed strings
TokenizeResult(self, s) ==
    LET qv == AsIterable(self.qval)
        sk == AsIterable(self.skip)
        loc == Loop([ordered_tokens |-> ResetOrderedTokens(self),
                     string_ss |-> self.string_ss,
                     windowed |-> << >>],
                    self.start_stop, s, LoopPairs(qv.vals, sk.vals), 1)
    IN  [self |->
            [self EXCEPT
                !.string = s,
                !.qval = qv,
                !.skip = sk,
                !.ordered_tokens = loc.ordered_tokens,
                !.string_ss = loc.string_ss,
                !.tokens = TokenizerTokenize(self.scaler, loc.ordered_tokens)],
         windowed |-> loc.windowed]

----------------------------------------------------------------------------
(* QGrams multiset algebra (collections.Counter operators) *)

\* Counter & Counter: the minimum of the counts, kept where positive
CounterAnd(x, y) ==
    LET keys == {t \in DOMAIN x : Min(x[t], Count(y, t)) > 0}
    IN  [t \in keys |-> Min(x[t], Count(y, t))]

\* Counter + Counter: the sum of the counts, kept where positive
CounterAdd(x, y) ==
    LET keys == {t \in DOMAIN x \cup DOMAIN y : Count(x, t) + Count(y, t) > 0}
    IN  [t \in keys |-> Count(x, t) + Count(y, t)]

\* Counter - Counter: the difference of the counts, kept where positive
CounterSub(x, y) ==
    LET keys == {t \in DOMAIN x : x[t] - Count(y, t) > 0}
                    \cup {t \in DOMAIN y \ DOMAIN x : y[t] < 0}
    IN  [t \in keys |-> IF t \in DOMAIN x THEN x[t] - Count(y, t) ELSE 0 - y[t]]

\* _Tokenizer.get_counter()
GetCounter(self) == self.tokens

\* QGrams.__add__, lines 186-192
QGramsAdd(self, other) == CounterAdd(GetCounter(self), GetCounter(other))

QGramsSubAsAdd(self, other) == CounterAdd(GetCounter(self), GetCounter(other))

\* QGrams.__sub__, lines 194-200
QGramsSub(self, other) == CounterSub(GetCounter(self), GetCounter(other))

QGramsAndAsSub(self, other) == CounterSub(GetCounter(self), GetCounter(other))

\* QGrams.__and__, lines 178-184
QGramsAnd(self, other) == CounterAnd(GetCounter(self), GetCounter(other))

----------------------------------------------------------------------------
(* The cardinality engine (_TokenDistance) under crisp intersection *)

\* the engine's default tokenizer: QGrams(qval=q, start_stop='$#', skip=0)
EngineArgs(q) ==
    [qval |-> PyInt(q), start_stop |-> <<"$", "#">>, skip |-> PyInt(0),
     scaler |-> "None"]

\* the QGrams object the engine holds for string s
EngineQGrams(q, s) == TokenizeResult(InitBody(EngineArgs(q)), s).self

RECURSIVE SumMin(_, _, _)
SumMin(x, y, keys) ==
    IF keys = {} THEN 0
    ELSE LET k == CHOOSE t \in keys : TRUE
         IN  Min(Count(x, k), Count(y, k)) + SumMin(x, y, keys \ {k})

RECURSIVE SumExcess(_, _, _)
SumExcess(x, y, keys) ==
    IF keys = {} THEN 0
    ELSE LET k == CHOOSE t \in keys : TRUE
             e == Count(x, k) - Count(y, k)
         IN  (IF e > 0 THEN e ELSE 0) + SumExcess(x, y, keys \ {k})

\* a: the sum over tokens of min(count in src, count in tar)
intersection_card(st, tt) == SumMin(st, tt, DOMAIN st \cup DOMAIN tt)

\* b: the sum of (count in src - count in tar) where positive
src_only_card(st, tt) == SumExcess(st, tt, DOMAIN st \cup DOMAIN tt)

\* c: the sum of (count in tar - count in src) where positive
tar_only_card(st, tt) == SumExcess(tt, st, DOMAIN st \cup DOMAIN tt)

\* n: the explicit alphabet size, or the union of the observed tokens
population_card(alphabet, st, tt) ==
    IF alphabet.given THEN alphabet.size
    ELSE intersection_card(st, tt) + src_only_card(st, tt) + tar_only_card(st, tt)

\* d: n - a - b - c
total_complement_card(alphabet, st, tt) ==
    population_card(alphabet, st, tt) - intersection_card(st, tt)
        - src_only_card(st, tt) - tar_only_card(st, tt)

----------------------------------------------------------------------------
(* The formulas' sim() *)

\* a Python true division num / den: the quotient as a fraction, or the
\* ZeroDivisionError it raises
Raised == [kind |-> "ZeroDivisionError", num |-> 0, den |-> 1]

Div(num, den) ==
    IF den = 0 THEN Raised ELSE [kind |-> "value", num |-> num, den |-> den]

WeightedJaccardSimDefaultWeight(weight, a, b, c) == Div(3 * a, 3 * a + b + c)

\* WeightedJaccard.sim, lines 135-141
WeightedJaccardSim(weight, a, b, c) == Div(weight * a, weight * a + b + c)

\* KuhnsVIII.sim, lines 157-166: delta_ab = a - (2a + b + c) / n, then
\* delta_ab / (a + 0.5 (b + c)), as one fraction
KuhnsVIIISim(a, b, c, n) ==
    IF n = 0 THEN Raised
    ELSE Div(2 * (a * n - (2 * a + b + c)), n * (2 * a + b + c))

\* KuderRichardson.sim, lines 142-151
KuderRichardsonSim(a, b, c, d) ==
    Div(4 * (a * d - b * c),
        (a + b) * (c + d) + (a + c) * (b + d) + 2 * (a * d - b * c))

RECURSIVE SumProduct(_, _, _)
SumProduct(x, y, keys) ==
    IF keys = {} THEN 0
    ELSE LET k == CHOOSE t \in keys : TRUE
         IN  Count(x, k) * Count(y, k) + SumProduct(x, y, keys \ {k})

\* QuantitativeJaccard.sim, lines 108-126
QuantitativeJaccardSim(st, tt) ==
    LET alphabet == DOMAIN CounterAdd(st, tt)
        product == SumProduct(st, tt, alphabet)
    IN  Div(product,
            SumProduct(st, st, alphabet) + SumProduct(tt, tt, alphabet) - product)

\* GeneralizedFleiss.sim, lines 257-262: the two products of marginals
MarginalProducts(marginals, a, b, c, d) ==
    IF marginals = "b" THEN <<(a + b) * (a + c), (c + d) * (b + d)>>
    ELSE IF marginals = "c" THEN <<(a + b) * (b + d), (a + c) * (c + d)>>
    ELSE <<(a + b) * (c + d), (a + c) * (c + d)>>

\* the keys of the means registry, lines 52-67
means ==
    {"arithmetic", "geometric", "harmonic", "ag", "gh", "agh", "contraharmonic",
     "identric", "logarithmic", "quadratic", "heronian", "hoelder", "lehmer",
     "seiffert"}

\* a mean_func that is a function: the built-ins max and min
Callables == {"max", "min"}

\* callable(self.mean_func), line 266
IsCallable(mean_func) == mean_func \in Callables

KeyError == [kind |-> "KeyError", num |-> 0, den |-> 1]

\* amean(nums): the sum over the count, as a fraction
amean(mps) == [num |-> mps[1] + mps[2], den |-> 2]

\* the callable applied to the list of the two products
CallMean(mean_func, mps) ==
    IF mean_func = "max"
    THEN [num |-> IF mps[1] > mps[2] THEN mps[1] ELSE mps[2], den |-> 1]
    ELSE [num |-> Min(mps[1], mps[2]), den |-> 1]

MeanKnownAlways(mean_func) == TRUE

\* means[self.mean_func], line 267: the name is a key of the registry
MeanKnown(mean_func) == mean_func \in means

\* GeneralizedFleiss.sim, lines 243-270.  proportional divides a, b, c, d by
\* n first, which leaves the quotient as it is when n is not 0.  Of the
\* registered means the arithmetic one is evaluated.
GeneralizedFleissSim(mean_func, marginals, proportional, a, b, c, d, n) ==
    IF proportional /\ n = 0 THEN Raised
    ELSE LET mps == MarginalProducts(marginals, a, b, c, d)
         IN  IF IsCallable(mean_func)
             THEN LET m == CallMean(mean_func, mps)
                  IN  Div((a * d - b * c) * m.den, m.num)
             ELSE IF ~MeanKnown(mean_func) THEN KeyError
             ELSE LET m == amean(mps)
                  IN  Div((a * d - b * c) * m.den, m.num)

----------------------------------------------------------------------------
(* The tokenizer's operations *)

ArgSets ==
    [qval : QvalArgs, start_stop : StartStopArgs, skip : SkipArgs,
     scaler : ScalerArgs]

NoArgs ==
    [qval |-> PyInt(2), start_stop |-> <<"$", "#">>, skip |-> PyInt(0),
     scaler |-> "None"]

NoResult == [kind |-> "none", num |-> 0, den |-> 1]

NoAlphabet == [given |-> FALSE, size |-> 0]

\* the defaults of the formulas' constructors
NoDistArgs ==
    [src |-> << >>, tar |-> << >>, qval |-> 2, alphabet |-> NoAlphabet,
     weight |-> 3, mean_func |-> "arithmetic", marginals |-> "a",
     proportional |-> FALSE, intersection_type |-> "crisp",
     metric |-> [near |-> 0, far |-> 0], threshold |-> 8]

Init ==
    /\ status = "init"
    /\ args = NoArgs
    /\ qg = NoInstance
    /\ windowed = << >>
    /\ measure = "none"
    /\ dist_args = NoDistArgs
    /\ src_tokens = EmptyCounter
    /\ tar_tokens = EmptyCounter
    /\ result = NoResult

\* QGrams(qval, start_stop, skip, scaler) returns an instance
Construct ==
    /\ status = "init"
    /\ \E a \in ArgSets :
        /\ ~QvalIsZero(a.qval)
        /\ args' = a
        /\ qg' = InitBody(a)
    /\ status' = "constructed"
    /\ UNCHANGED <<windowed, distvars>>

\* QGrams(qval=0, ...) raises ValueError at line 107
ConstructRaises ==
    /\ status = "init"
    /\ \E a \in ArgSets :
        /\ QvalIsZero(a.qval)
        /\ args' = a
    /\ status' = "raised"
    /\ UNCHANGED <<qg, windowed, distvars>>

\* qg.tokenize(s)
Tokenize ==
    /\ status \in {"constructed", "tokenized"}
    /\ \E s \in Inputs :
        LET r == TokenizeResult(qg, s)
        IN  /\ qg' = r.self
            /\ windowed' = r.windowed
    /\ status' = "tokenized"
    /\ UNCHANGED <<args, distvars>>

Next == Construct \/ ConstructRaises \/ Tokenize

Spec == Init /\ [][Next]_vars

----------------------------------------------------------------------------
(* The formulas' operations: one comparison sim(src, tar) per behaviour *)

DistInputs == Strings(MaxLen)

\* the pair to compare and the tokenizer's q; the rest of a formula's
\* configuration is drawn by its own operation
DistArgSets ==
    {[NoDistArgs EXCEPT !.src = s, !.tar = u, !.qval = q] :
        s \in DistInputs, u \in DistInputs, q \in {1, 2}}

AlphabetArgs ==
    {NoAlphabet} \cup {[given |-> TRUE, size |-> k] : k \in {0, 12}}

WeightArgs == {1, 2, 3}

\* a registered name, an unknown name, two callables
MeanFuncArgs == {"arithmetic", "median"} \cup Callables

MarginalsArgs == {"a", "b", "c"}

InitDist ==
    /\ status = "init"
    /\ args = NoArgs
    /\ qg = NoInstance
    /\ windowed = << >>
    /\ measure = "none"
    /\ dist_args \in DistArgSets
    /\ src_tokens = EmptyCounter
    /\ tar_tokens = EmptyCounter
    /\ result = NoResult

\* _TokenDistance.tokenize(src, tar): both strings through the tokenizer
EngineTokenize ==
    /\ src_tokens' = GetCounter(EngineQGrams(dist_args.qval, dist_args.src))
    /\ tar_tokens' = GetCounter(EngineQGrams(dist_args.qval, dist_args.tar))

\* the cardinalities of the token pair state st, tt
CardA(st, tt) == intersection_card(st, tt)
CardB(st, tt) == src_only_card(st, tt)
CardC(st, tt) == tar_only_card(st, tt)
CardD(st, tt) == total_complement_card(dist_args.alphabet, st, tt)
CardN(st, tt) == population_card(dist_args.alphabet, st, tt)

\* WeightedJaccard(weight=w).sim(src, tar)
WeightedJaccard_sim ==
    /\ measure = "none"
    /\ EngineTokenize
    /\ \E w \in WeightArgs : dist_args' = [dist_args EXCEPT !.weight = w]
    /\ result' = WeightedJaccardSim(dist_args'.weight,
                                    CardA(src_tokens', tar_tokens'),
                                    CardB(src_tokens', tar_tokens'),
                                    CardC(src_tokens', tar_tokens'))
    /\ measure' = "WeightedJaccard"
    /\ UNCHANGED tokvars

\* KuhnsVIII(alphabet).sim(src, tar).  An explicit alphabet smaller than the
\* observed tokens is left out here and below: d = n - a - b - c stays a
\* cardinality (>= 0).
KuhnsVIII_sim ==
    /\ measure = "none"
    /\ EngineTokenize
    /\ \E al \in AlphabetArgs : dist_args' = [dist_args EXCEPT !.alphabet = al]
    /\ CardD(src_tokens, tar_tokens)' >= 0
    /\ result' = KuhnsVIIISim(CardA(src_tokens', tar_tokens'),
                              CardB(src_tokens', tar_tokens'),
                              CardC(src_tokens', tar_tokens'),
                              CardN(src_tokens, tar_tokens)')
    /\ measure' = "KuhnsVIII"
    /\ UNCHANGED tokvars

\* KuderRichardson(alphabet).sim(src, tar)
KuderRichardson_sim ==
    /\ measure = "none"
    /\ EngineTokenize
    /\ \E al \in AlphabetArgs : dist_args' = [dist_args EXCEPT !.alphabet = al]
    /\ CardD(src_tokens, tar_tokens)' >= 0
    /\ result' = KuderRichardsonSim(CardA(src_tokens', tar_tokens'),
                                    CardB(src_tokens', tar_tokens'),
                                    CardC(src_tokens', tar_tokens'),
                                    CardD(src_tokens, tar_tokens)')
    /\ measure' = "KuderRichardson"
    /\ UNCHANGED tokvars

\* QuantitativeJaccard().sim(src, tar)
QuantitativeJaccard_sim ==
    /\ measure = "none"
    /\ EngineTokenize
    /\ result' = QuantitativeJaccardSim(src_tokens', tar_tokens')
    /\ measure' = "QuantitativeJaccard"
    /\ UNCHANGED <<dist_args, tokvars>>

\* GeneralizedFleiss(alphabet, marginals, proportional).sim(src, tar)
GeneralizedFleiss_sim ==
    /\ measure = "none"
    /\ EngineTokenize
    /\ \E al \in AlphabetArgs, mf \in MeanFuncArgs, mg \in MarginalsArgs,
          pr \in BOOLEAN :
           dist_args' = [dist_args EXCEPT !.alphabet = al, !.mean_func = mf,
                                          !.marginals = mg, !.proportional = pr]
    /\ CardD(src_tokens, tar_tokens)' >= 0
    /\ result' = GeneralizedFleissSim(dist_args'.mean_func, dist_args'.marginals,
                                      dist_args'.proportional,
                                      CardA(src_tokens', tar_tokens'),
                                      CardB(src_tokens', tar_tokens'),
                                      CardC(src_tokens', tar_tokens'),
                                      CardD(src_tokens, tar_tokens)',
                                      CardN(src_tokens, tar_tokens)')
    /\ measure' = "GeneralizedFleiss"
    /\ UNCHANGED tokvars

NextDist ==
    \/ WeightedJaccard_sim
    \/ KuhnsVIII_sim
    \/ KuderRichardson_sim
    \/ QuantitativeJaccard_sim
    \/ GeneralizedFleiss_sim

SpecDist == InitDist /\ [][NextDist]_vars

----------------------------------------------------------------------------
(* Fuzzy and soft intersection of the cardinality engine *)

\* an injected pairwise similarity, in tenths (0..10): 10 for equal tokens,
\* metric.near for unequal tokens that agree at some position, metric.far for
\* the rest
Similarity(metric, s, t) ==
    IF s = t THEN 10
    ELSE IF \E i \in DOMAIN s : i \in DOMAIN t /\ s[i] = t[i] THEN metric.near
    ELSE metric.far

MetricArgs == {[near |-> x, far |-> y] : x \in {0, 8, 10}, y \in {0, 5}}

\* thresholds in tenths; 8 is the default 0.8
ThresholdArgs == {5, 8}

\* the occurrences of a multiset: <<token, k>> for its k-th copy
TokenOccurrences(c) == UNION {{<<t, k>> : k \in 1..c[t]} : t \in DOMAIN c}

\* the pairs of occurrences whose similarity meets or exceeds the threshold
MatchCandidates(st, tt, metric, threshold) ==
    {p \in TokenOccurrences(st) \X TokenOccurrences(tt) :
        Similarity(metric, p[1][1], p[2][1]) >= threshold}

ConsumeSrcOnly(cands, best) == {p \in cands : p[1] # best[1]}

\* a matched pair consumes its src occurrence and its tar occurrence
Consume(cands, best) == {p \in cands : p[1] # best[1] /\ p[2] # best[2]}

\* greedy matching by descending similarity
RECURSIVE GreedyMatching(_, _)
GreedyMatching(cands, metric) ==
    IF cands = {} THEN {}
    ELSE LET best == CHOOSE p \in cands :
                        \A r \in cands :
                            Similarity(metric, p[1][1], p[2][1])
                                >= Similarity(metric, r[1][1], r[2][1])
         IN  {best} \cup GreedyMatching(Consume(cands, best), metric)

FuzzyMatching(st, tt, metric, threshold) ==
    GreedyMatching(MatchCandidates(st, tt, metric, threshold), metric)

\* the fuzzy intersection cardinality, in tenths: one per matched pair
fuzzy_intersection_card(st, tt, metric, threshold) ==
    10 * Cardinality(FuzzyMatching(st, tt, metric, threshold))

\* the sum of the count-weighted pairwise similarities, in tenths
SoftSum(st, tt, metric) ==
    LET w == [p \in (DOMAIN st) \X (DOMAIN tt) |->
                st[p[1]] * tt[p[2]] * Similarity(metric, p[1], p[2])]
    IN  SumOver(w, DOMAIN w)

\* the soft intersection cardinality, in tenths: the sum, capped at
\* min(|src|, |tar|)
soft_intersection_card(st, tt, metric) ==
    Min(SoftSum(st, tt, metric), 10 * Min(CounterTotal(st), CounterTotal(tt)))

\* the engine's intersection cardinality under intersection_type = 'fuzzy'
Fuzzy_intersection ==
    /\ measure = "none"
    /\ EngineTokenize
    /\ \E m \in MetricArgs, th \in ThresholdArgs :
           dist_args' = [dist_args EXCEPT !.intersection_type = "fuzzy",
                                          !.metric = m, !.threshold = th]
    /\ result' = [kind |-> "value",
                  num |-> fuzzy_intersection_card(src_tokens', tar_tokens',
                                                  dist_args'.metric,
                                                  dist_args'.threshold),
                  den |-> 10]
    /\ measure' = "fuzzy"
    /\ UNCHANGED tokvars

\* the engine's intersection cardinality under intersection_type = 'soft'
Soft_intersection ==
    /\ measure = "none"
    /\ EngineTokenize
    /\ \E m \in MetricArgs :
           dist_args' = [dist_args EXCEPT !.intersection_type = "soft",
                                          !.metric = m]
    /\ result' = [kind |-> "value",
                  num |-> soft_intersection_card(src_tokens', tar_tokens',
                                                 dist_args'.metric),
                  den |-> 10]
    /\ measure' = "soft"
    /\ UNCHANGED tokvars

NextIntersect == Fuzzy_intersection \/ Soft_intersection

SpecIntersect == InitDist /\ [][NextIntersect]_vars

----------------------------------------------------------------------------
(* Properties of the tokenizer *)

Tokenized == status = "tokenized"

\* what a freshly constructed instance with arguments a holds after tokenize(s)
FreshTokenize(a, s) == TokenizeResult(InitBody(a), s).self

\* the padded string as the documentation describes it, position by position
\* (1-based): q - 1 copies of the first boundary symbol, the input, q - 1
\* copies of the last boundary symbol; the input alone without start_stop
DocPadded(ss, q, s) ==
    IF ss = << >> THEN s
    ELSE [i \in 1..(Len(s) + 2 * (q - 1)) |->
            IF i <= q - 1 THEN ss[1]
            ELSE IF i <= (q - 1) + Len(s) THEN s[i - (q - 1)]
            ELSE ss[Len(ss)]]

Occurrences(seq, t) == Cardinality({i \in DOMAIN seq : seq[i] = t})

\* C1: whatever tokenize calls came before on the instance, the ordered tokens
\* and the multiset held after tokenize(s) are those of a fresh instance with
\* the same constructor arguments, and tokenizing the same string again
\* leaves the multiset as it is.
C1_TokenizeIsPure ==
    Tokenized =>
        /\ qg.ordered_tokens = FreshTokenize(args, qg.string).ordered_tokens
        /\ qg.tokens = FreshTokenize(args, qg.string).tokens
        /\ TokenizeResult(qg, qg.string).self.tokens = qg.tokens
        /\ TokenizeResult(qg, qg.string).self.ordered_tokens = qg.ordered_tokens

\* an earlier call left a padded string longer than any of the last call's,
\* and the last call produced tokens
C1_Witness ==
    /\ Tokenized
    /\ qg.ordered_tokens # << >>
    /\ \A k \in DOMAIN windowed : Len(windowed[k].string) < Len(qg.string_ss)

EmptyInputQ2 ==
    /\ Tokenized
    /\ QvalEquals(args.qval, 2)
    /\ args.start_stop # << >>
    /\ qg.string = << >>

\* C2 as stated: q = 2 with a non-empty start_stop on the empty string gives
\* exactly one gram, made of padding symbols only ('$#' once by default).
C2_EmptyInputOnePaddingGram ==
    EmptyInputQ2 =>
        /\ CounterTotal(qg.tokens) = 1
        /\ \A t \in DOMAIN qg.tokens : Range(t) \subseteq Range(args.start_stop)
        /\ args.start_stop = <<"$", "#">> => qg.tokens = (<<"$", "#">> :> 1)

\* C2 amended: q = 2 with a non-empty start_stop on the empty string gives
\* the empty multiset and no ordered token: the pair is skipped, nothing is
\* padded.
C2_EmptyInputNoGram ==
    EmptyInputQ2 =>
        /\ qg.tokens = EmptyCounter
        /\ qg.ordered_tokens = << >>
        /\ windowed = << >>

C2_Witness == EmptyInputQ2 /\ args.start_stop = <<"$", "#">>

SingleQNoSkip ==
    /\ Tokenized
    /\ ~args.qval.iter
    /\ args.qval.vals[1] >= 1
    /\ args.skip = PyInt(0)
    /\ Len(qg.string) >= args.qval.vals[1]

Tok1(a) == <<a>>
Tok2(a, b) == <<a, b>>
Tok3(a, b, c) == <<a, b, c>>

\* C3: for one q >= 1, skip 0 and len(s) >= q the ordered tokens are the
\* contiguous length-q substrings of the padded string at start indices
\* 0..len(padded)-q, left to right; without a scaler the multiset counts the
\* occurrences of each; the three documented multisets of 'AATTATAT' come out.
C3_ContiguousGrams ==
    SingleQNoSkip =>
        LET q == args.qval.vals[1]
            p == DocPadded(args.start_stop, q, qg.string)
        IN  /\ Len(qg.ordered_tokens) = Len(p) - q + 1
            /\ \A i \in 1..(Len(p) - q + 1) :
                   qg.ordered_tokens[i] = SubSeq(p, i, i + q - 1)
            /\ args.scaler = "None" =>
                   /\ DOMAIN qg.tokens = Range(qg.ordered_tokens)
                   /\ \A t \in DOMAIN qg.tokens :
                          qg.tokens[t] = Occurrences(qg.ordered_tokens, t)
            /\ (args.scaler = "None" /\ qg.string = DocString) =>
                   /\ (q = 1 /\ args.start_stop = << >>) =>
                          qg.tokens = (Tok1("A") :> 4 @@ Tok1("T") :> 4)
                   /\ (q = 3 /\ args.start_stop = << >>) =>
                          qg.tokens = (Tok3("T", "A", "T") :> 2
                                       @@ Tok3("A", "A", "T") :> 1
                                       @@ Tok3("A", "T", "T") :> 1
                                       @@ Tok3("T", "T", "A") :> 1
                                       @@ Tok3("A", "T", "A") :> 1)
                   /\ (q = 2 /\ args.start_stop = <<"$", "#">>) =>
                          qg.tokens = (Tok2("A", "T") :> 3 @@ Tok2("T", "A") :> 2
                                       @@ Tok2("$", "A") :> 1 @@ Tok2("A", "A") :> 1
                                       @@ Tok2("T", "T") :> 1 @@ Tok2("T", "#") :> 1)

C3_Witness ==
    /\ SingleQNoSkip
    /\ args.qval.vals[1] = 2
    /\ args.start_stop = <<"$", "#">>
    /\ args.scaler = "None"
    /\ qg.string = DocString

\* C4: every pair that is not skipped windows the input itself when
\* start_stop is empty, and otherwise q_i - 1 copies of start_stop's first
\* character, the input, q_i - 1 copies of its last character; q_i = 1 adds
\* no boundary symbol, so each q = 1 token is one character of the input.
C4_PaddedString ==
    Tokenized =>
        /\ \A k \in DOMAIN windowed :
            LET w == windowed[k]
            IN  /\ w.string = DocPadded(args.start_stop, w.qval_i, qg.string)
                /\ w.qval_i = 1 => w.string = qg.string
        /\ (\A i \in DOMAIN args.qval.vals : args.qval.vals[i] = 1) =>
               \A t \in Range(qg.ordered_tokens) :
                   Len(t) = 1 /\ t[1] \in Range(qg.string)

\* a pair with q_i >= 2 windowed a non-empty input under two distinct
\* boundary symbols
C4_Witness ==
    /\ Tokenized
    /\ args.start_stop = <<"$", "#">>
    /\ qg.string # << >>
    /\ \E k \in DOMAIN windowed : windowed[k].qval_i >= 2

\* C5: QGrams with the integer qval 0 raises ValueError before any attribute
\* is stored: no instance with q = 0 exists and none is ever tokenized.
C5_ZeroQRaises ==
    /\ (status # "init" /\ QvalEquals(args.qval, 0)) =>
           status = "raised" /\ qg.attrs = {} /\ qg = NoInstance
    /\ status \in {"constructed", "tokenized"} =>
           ~QvalEquals(args.qval, 0) /\ ~QvalEquals(qg.qval, 0)
    /\ status = "raised" => QvalEquals(args.qval, 0)

C5_Witness == status = "raised" /\ QvalEquals(args.qval, 0)

HasNonPositiveQ(q) == \E i \in DOMAIN q.vals : q.vals[i] < 1

IsPositive(q) == q >= 1

PositiveQOnly(a) ==
    [a EXCEPT !.qval = PyList(SelectSeq(a.qval.vals, IsPositive))]

\* C6 as stated: a negative integer q, or a collection of q values holding 0
\* or a negative value, raises an error at construction or at tokenize: no
\* multiset is ever returned for it.
C6_NonPositiveQRaises ==
    (status # "init" /\ HasNonPositiveQ(args.qval)) => status # "tokenized"

\* C6 amended: only the integer 0 is rejected.  A negative integer q, or a
\* collection holding 0 or a negative value, constructs and tokenizes without
\* an error: every q_i < 1 is skipped, the result is that of the positive q
\* values alone, and it is empty when there is none.
C6_NonPositiveQSkipped ==
    (status # "init" /\ HasNonPositiveQ(args.qval) /\ ~QvalEquals(args.qval, 0)) =>
        /\ status \in {"constructed", "tokenized"}
        /\ Tokenized =>
            /\ \A k \in DOMAIN windowed : windowed[k].qval_i >= 1
            /\ qg.ordered_tokens
                   = FreshTokenize(PositiveQOnly(args), qg.string).ordered_tokens
            /\ qg.tokens = FreshTokenize(PositiveQOnly(args), qg.string).tokens
            /\ (\A i \in DOMAIN args.qval.vals : args.qval.vals[i] < 1) =>
                   qg.tokens = EmptyCounter /\ qg.ordered_tokens = << >>

\* a collection holding 0 and a usable q was tokenized and produced tokens
C6_Witness ==
    /\ Tokenized
    /\ args.qval = PyList(<<0, 1>>)
    /\ qg.ordered_tokens # << >>

----------------------------------------------------------------------------
(* Properties of the cardinality engine and of the formulas *)

Compared == measure # "none"

SrcQGrams == EngineQGrams(dist_args.qval, dist_args.src)
TarQGrams == EngineQGrams(dist_args.qval, dist_args.tar)

\* C7: mass conservation under crisp semantics: a + b is the total count of
\* src and a + c the total count of tar; for the QGrams objects A and B the
\* totals of A & B and A - B sum to the total of A (and likewise for B).
C7_MassConservation ==
    Compared =>
        /\ CardA(src_tokens, tar_tokens) + CardB(src_tokens, tar_tokens)
               = CounterTotal(src_tokens)
        /\ CardA(src_tokens, tar_tokens) + CardC(src_tokens, tar_tokens)
               = CounterTotal(tar_tokens)
        /\ GetCounter(SrcQGrams) = src_tokens
        /\ GetCounter(TarQGrams) = tar_tokens
        /\ CounterTotal(QGramsAnd(SrcQGrams, TarQGrams))
               + CounterTotal(QGramsSub(SrcQGrams, TarQGrams))
               = CounterTotal(src_tokens)
        /\ CounterTotal(QGramsAnd(TarQGrams, SrcQGrams))
               + CounterTotal(QGramsSub(TarQGrams, SrcQGrams))
               = CounterTotal(tar_tokens)

\* shared and unshared tokens on both sides, one of them repeated in src
C7_Witness ==
    /\ Compared
    /\ CardA(src_tokens, tar_tokens) > 0
    /\ CardB(src_tokens, tar_tokens) > 0
    /\ CardC(src_tokens, tar_tokens) > 0
    /\ \E t \in DOMAIN src_tokens : src_tokens[t] >= 2

\* C8: crisp intersection is commutative: intersection_card(A, B) equals
\* intersection_card(B, A), and A & B equals B & A token by token.
C8_IntersectionCommutes ==
    Compared =>
        /\ intersection_card(src_tokens, tar_tokens)
               = intersection_card(tar_tokens, src_tokens)
        /\ DOMAIN QGramsAnd(SrcQGrams, TarQGrams)
               = DOMAIN QGramsAnd(TarQGrams, SrcQGrams)
        /\ \A t \in DOMAIN src_tokens \cup DOMAIN tar_tokens :
               Count(QGramsAnd(SrcQGrams, TarQGrams), t)
                   = Count(QGramsAnd(TarQGrams, SrcQGrams), t)

\* the two multisets differ and share a token
C8_Witness ==
    /\ Compared
    /\ src_tokens # tar_tokens
    /\ CardA(src_tokens, tar_tokens) > 0
    /\ CardB(src_tokens, tar_tokens) # CardC(src_tokens, tar_tokens)

IsValue(r, v) == r.kind = "value" /\ r.num = v * r.den

DefaultDistArgs ==
    /\ dist_args.qval = NoDistArgs.qval
    /\ dist_args.alphabet = NoDistArgs.alphabet
    /\ dist_args.weight = NoDistArgs.weight
    /\ dist_args.mean_func = NoDistArgs.mean_func
    /\ dist_args.marginals = NoDistArgs.marginals
    /\ dist_args.proportional = NoDistArgs.proportional

\* C9: with default configuration every formula gives similarity 1.0 for
\* two empty strings and 0.0 for one empty and one non-empty string.
C9_EmptyStringSims ==
    (Compared /\ DefaultDistArgs) =>
        /\ (dist_args.src = << >> /\ dist_args.tar = << >>) => IsValue(result, 1)
        /\ ((dist_args.src = << >>) # (dist_args.tar = << >>)) => IsValue(result, 0)

\* C10: sim of every formula returns a value for every pair of inputs and
\* every reachable combination of cardinalities: it never divides by zero.
C10_NoZeroDivision == Compared => result.kind # "ZeroDivisionError"

\* r is the outcome of the Python division num / den: its value as a
\* fraction, or the ZeroDivisionError of a zero denominator
SameQuotient(r, num, den) ==
    IF den = 0 THEN r.kind = "ZeroDivisionError"
    ELSE r.kind = "value" /\ r.num * den = num * r.den

\* C11: WeightedJaccard with weight 1 is plain Jaccard a / (a + b + c) and
\* with weight 2 is Dice 2a / (2a + b + c), for a, b, c of the same token
\* pair (the quotient is undefined, and the division raises, exactly when
\* the plain formula's denominator is 0).
C11_WeightOneIsJaccard ==
    (Compared /\ measure = "WeightedJaccard") =>
        LET a == CardA(src_tokens, tar_tokens)
            b == CardB(src_tokens, tar_tokens)
            c == CardC(src_tokens, tar_tokens)
        IN  /\ dist_args.weight = 1 => SameQuotient(result, a, a + b + c)
            /\ dist_args.weight = 2 => SameQuotient(result, 2 * a, 2 * a + b + c)

\* weight 1 on a pair with shared and unshared tokens
C11_Witness ==
    /\ measure = "WeightedJaccard"
    /\ dist_args.weight = 1
    /\ result.kind = "value"
    /\ CardA(src_tokens, tar_tokens) > 0
    /\ CardB(src_tokens, tar_tokens) + CardC(src_tokens, tar_tokens) > 0

\* the products of marginals as the class documentation lists them
DocMarginalProducts(marginals, a, b, c, d) ==
    IF marginals = "a" THEN <<(a + b) * (c + d), (a + c) * (b + d)>>
    ELSE IF marginals = "b" THEN <<(a + b) * (a + c), (c + d) * (b + d)>>
    ELSE <<(a + b) * (b + d), (a + c) * (c + d)>>

FleissArithmetic ==
    /\ measure = "GeneralizedFleiss"
    /\ dist_args.mean_func = "arithmetic"
    /\ ~(dist_args.proportional /\ CardN(src_tokens, tar_tokens) = 0)

\* C12: GeneralizedFleiss takes the mean of (a+b)(c+d) and (a+c)(b+d) for
\* marginals 'a', of (a+b)(a+c) and (c+d)(b+d) for 'b', of (a+b)(b+d) and
\* (a+c)(c+d) for 'c'; with the arithmetic mean and marginals 'a' the result
\* is (ad - bc) / (((a+b)(c+d) + (a+c)(b+d)) / 2).
C12_DocumentedMarginals ==
    FleissArithmetic =>
        LET a == CardA(src_tokens, tar_tokens)
            b == CardB(src_tokens, tar_tokens)
            c == CardC(src_tokens, tar_tokens)
            d == CardD(src_tokens, tar_tokens)
            mps == DocMarginalProducts(dist_args.marginals, a, b, c, d)
        IN  SameQuotient(result, 2 * (a * d - b * c), mps[1] + mps[2])

ShorterThanEveryQ ==
    \A i \in DOMAIN qg.qval.vals : Len(qg.string) < qg.qval.vals[i]

\* C13: an input shorter than every q value of the instance leaves the
\* multiset and the ordered tokens empty, with or without start_stop; the
\* empty string always does, and two empty multisets have intersection,
\* src-only and tar-only cardinalities 0.
C13_ShortInputNoTokens ==
    Tokenized =>
        /\ ShorterThanEveryQ =>
            /\ qg.tokens = EmptyCounter
            /\ qg.ordered_tokens = << >>
        /\ qg.string = << >> =>
            /\ qg.tokens = EmptyCounter
            /\ intersection_card(qg.tokens, FreshTokenize(args, << >>).tokens) = 0
            /\ src_only_card(qg.tokens, FreshTokenize(args, << >>).tokens) = 0
            /\ tar_only_card(qg.tokens, FreshTokenize(args, << >>).tokens) = 0

\* 'A' under q = 3 with both boundary symbols
C13_Witness ==
    /\ Tokenized
    /\ qg.string = <<"A">>
    /\ QvalEquals(args.qval, 3)
    /\ args.start_stop = <<"$", "#">>
    /\ qg.tokens = EmptyCounter

FleissCompared == Compared /\ measure = "GeneralizedFleiss"

\* the population is empty although proportions were requested: the division
\* of a by n at line 252 raises before any mean is looked up
FleissNoPopulation ==
    dist_args.proportional /\ CardN(src_tokens, tar_tokens) = 0

Larger(x, y) == IF x > y THEN x ELSE y

\* C15: a GeneralizedFleiss whose mean_func is a string outside the registry
\* never returns a similarity: sim raises for every input pair; a callable
\* mean_func (max, min) is applied to the two marginal products themselves, so
\* the result is (ad - bc) over the larger, or the smaller, of the two.
C15_UnknownMeanRaises ==
    FleissCompared =>
        LET a == CardA(src_tokens, tar_tokens)
            b == CardB(src_tokens, tar_tokens)
            c == CardC(src_tokens, tar_tokens)
            d == CardD(src_tokens, tar_tokens)
            mps == MarginalProducts(dist_args.marginals, a, b, c, d)
        IN  /\ (dist_args.mean_func \notin means
                    /\ dist_args.mean_func \notin Callables) =>
                result.kind \in {"KeyError", "ZeroDivisionError"}
            /\ (dist_args.mean_func = "max" /\ ~FleissNoPopulation) =>
                SameQuotient(result, a * d - b * c, Larger(mps[1], mps[2]))
            /\ (dist_args.mean_func = "min" /\ ~FleissNoPopulation) =>
                SameQuotient(result, a * d - b * c, Min(mps[1], mps[2]))

\* the unregistered name 'median' on two strings that share a token
C15_Witness ==
    /\ FleissCompared
    /\ dist_args.mean_func = "median"
    /\ CardA(src_tokens, tar_tokens) > 0
    /\ result.kind = "KeyError"

C15_CallableWitness ==
    /\ FleissCompared
    /\ dist_args.mean_func = "max"
    /\ result.kind = "value"
    /\ result.num # 0

\* one q and one skip: every ordered token comes from the single pass
SinglePair ==
    /\ Tokenized
    /\ ~args.qval.iter
    /\ ~args.skip.iter
    /\ Len(windowed) = 1

\* C16 as stated: every token of a pass (q_i, skip_i) has exactly q_i
\* characters, and the token that starts at index i holds the characters of
\* the padded string at i, i + (skip_i + 1), ..., i + (q_i - 1)(skip_i + 1),
\* for every skip_i >= 0 and every start index.
C16_TokensHaveQChars ==
    /\ Tokenized =>
        \A i \in DOMAIN qg.ordered_tokens :
            \E k \in DOMAIN windowed :
                Len(qg.ordered_tokens[i]) = windowed[k].qval_i
    /\ SinglePair =>
        LET w == windowed[1]
            step == w.skip_i + 1
        IN  \A i \in DOMAIN qg.ordered_tokens :
                /\ Len(qg.ordered_tokens[i]) = w.qval_i
                /\ \A j \in 1..w.qval_i :
                    /\ i + (j - 1) * step \in DOMAIN w.string
                    /\ qg.ordered_tokens[i][j] = w.string[i + (j - 1) * step]

\* the padded string of the last call that is the longest of its passes
LongestOfLastCall(s) ==
    /\ \E k \in DOMAIN windowed : windowed[k].string = s
    /\ \A k \in DOMAIN windowed : Len(windowed[k].string) <= Len(s)

\* C17 as stated: after any sequence of tokenize calls the padded string of
\* the instance is the longest padded variant of the last input over its
\* passes, and is what a fresh instance with the same arguments would hold
\* after that one call.
C17_PaddedStringOfLastCall ==
    Tokenized =>
        /\ windowed # << >> => LongestOfLastCall(qg.string_ss)
        /\ qg.string_ss = FreshTokenize(args, qg.string).string_ss

RECURSIVE ConcatAll(_)
ConcatAll(seqs) ==
    IF seqs = << >> THEN << >> ELSE Head(seqs) \o ConcatAll(Tail(seqs))

\* the ordered tokens of the one pair (q, sk) on the last input: those of an
\* instance built for that pair alone, with the boundary symbols in effect
PairTokens(q, sk) ==
    FreshTokenize([args EXCEPT !.qval = PyList(<<q>>), !.skip = PyList(<<sk>>),
                               !.start_stop = qg.start_stop],
                  qg.string).ordered_tokens

\* C18: the ordered tokens are the per-pair token sequences concatenated with
\* the q values as the outer and the skip values as the inner order; without
\* a scaler the multiset counts that concatenation, so its total is the sum of
\* the per-pair counts; a pair whose q exceeds the input length adds nothing.
C18_PairsConcatenated ==
    Tokenized =>
        LET qv == args.qval.vals
            sk == args.skip.vals
            perQ == [i \in DOMAIN qv |->
                        ConcatAll([j \in DOMAIN sk |-> PairTokens(qv[i], sk[j])])]
        IN  /\ qg.ordered_tokens = ConcatAll(perQ)
            /\ args.scaler = "None" =>
                /\ CounterTotal(qg.tokens) = Len(ConcatAll(perQ))
                /\ \A t \in Range(qg.ordered_tokens) :
                    Count(qg.tokens, t) = Occurrences(ConcatAll(perQ), t)
            /\ \A i \in DOMAIN qv, j \in DOMAIN sk :
                qv[i] > Len(qg.string) => PairTokens(qv[i], sk[j]) = << >>

\* two q values and two skip values, all four pairs tokenized
C18_Witness ==
    /\ Tokenized
    /\ args.qval.iter
    /\ args.skip.iter
    /\ args.scaler = "None"
    /\ Len(windowed) = 4
    /\ Len(qg.ordered_tokens) > 4

\* C19: from construction on, whatever tokenize calls were made, the q
\* values, the skip values, start_stop and the scaler of the instance are
\* the ones construction left: the constructor's arguments, with start_stop
\* emptied for q = 1. The skip values are not incremented by a call.
C19_ConfigurationUnchanged ==
    status \in {"constructed", "tokenized"} =>
        /\ qg.qval.vals = args.qval.vals
        /\ qg.skip.vals = args.skip.vals
        /\ qg.start_stop = InitBody(args).start_stop
        /\ qg.scaler = args.scaler
        /\ qg.attrs = InitBody(args).attrs

\* skip = 1 on an instance that has tokenized a longer input before
C19_Witness ==
    /\ Tokenized
    /\ args.skip = PyInt(1)
    /\ qg.skip.iter
    /\ qg.ordered_tokens # << >>
    /\ \A k \in DOMAIN windowed : Len(windowed[k].string) < Len(qg.string_ss)

\* sim with the two arguments exchanged, by the formula of the measure used
SwappedSim ==
    LET a == CardA(tar_tokens, src_tokens)
        b == CardB(tar_tokens, src_tokens)
        c == CardC(tar_tokens, src_tokens)
        d == CardD(tar_tokens, src_tokens)
        n == CardN(tar_tokens, src_tokens)
    IN  CASE measure = "WeightedJaccard" ->
                WeightedJaccardSim(dist_args.weight, a, b, c)
          [] measure = "KuhnsVIII" -> KuhnsVIIISim(a, b, c, n)
          [] measure = "KuderRichardson" -> KuderRichardsonSim(a, b, c, d)
          [] measure = "QuantitativeJaccard" ->
                QuantitativeJaccardSim(tar_tokens, src_tokens)
          [] OTHER ->
                GeneralizedFleissSim(dist_args.mean_func, dist_args.marginals,
                                     dist_args.proportional, a, b, c, d, n)

SameResult(r, s) ==
    /\ r.kind = s.kind
    /\ r.num * s.den = s.num * r.den

\* C20 as stated: for each of the five formulas, and for GeneralizedFleiss
\* with each marginals option and each mean function offered (all symmetric),
\* sim(src, tar) and sim(tar, src) are the same.
C20_SimSymmetric == Compared => SameResult(result, SwappedSim)

\* the same, leaving out GeneralizedFleiss with marginals 'a'
C20_SymmetricElsewhere ==
    (Compared /\ ~(measure = "GeneralizedFleiss" /\ dist_args.marginals = "a"))
        => SameResult(result, SwappedSim)

Intersected == measure \in {"fuzzy", "soft"}

C14_SoftCapped ==
    /\ measure = "soft"
    /\ SoftSum(src_tokens, tar_tokens, dist_args.metric)
        > 10 * Min(CounterTotal(src_tokens), CounterTotal(tar_tokens))
    /\ result.num > 0

====
